---- MODULE Spec2Model ----
(***************************************************************************)
(* The streaming MicRecorder component (src/unnamed/part_000): one React   *)
(* component whose handlers run to completion on a single event loop and   *)
(* suspend only at their awaits.  Every action below is one such run:      *)
(* a click, the arrival of a response, a recorder event or a timer.        *)
(***************************************************************************)
EXTENDS Integers, Sequences, FiniteSets, TLC

\* Bounds of the exploration: the clicks on the mic button and the segments
\* accepted into audioChunks, counted together, under Spec and under SpecWide.
MaxInputs == 4
MaxInputsWide == 5

\* The same count under SpecLive, the specification with fairness.
MaxInputsLive == 3

\* `event.data.size > 1000` (line 186) and `finalFile.size > 1000` (line 223).
MinSize == 1000

\* Sizes a captured segment may have: below and above the threshold.
Sizes == {500, 1500}

\* Texts are sequences of characters.
Hello == <<"h", "e", "l", "l", "o">>
World == <<"w", "o", "r", "l", "d">>
PaddedWorld == <<" ">> \o World \o <<" ">>

\* The status messages the component writes into `transcript`; each is one
\* opaque symbol, none is blank.
Listening == <<"Listening...">>
StartFailed == <<"Failed to start recording session">>
MicDenied == <<"Microphone access denied or not available">>
RecordingError == <<"Recording error occurred">>

\* What /transcribe may answer: a failure (network error, non-success status,
\* malformed body), a non-success status whose body happens to carry a text,
\* or a body whose text is missing, empty, blank or a phrase, with or without
\* the milestone flag.
Failure == [ok |-> FALSE, hasText |-> FALSE, text |-> <<>>, milestone |-> FALSE]
Rejected == [ok |-> FALSE, hasText |-> TRUE, text |-> Hello, milestone |-> FALSE]
Body(has, t, m) == [ok |-> TRUE, hasText |-> has, text |-> t, milestone |-> m]
Responses ==
    {Failure, Rejected, Body(FALSE, <<>>, FALSE), Body(TRUE, <<>>, FALSE),
     Body(TRUE, <<" ">>, TRUE), Body(TRUE, Hello, FALSE),
     Body(TRUE, PaddedWorld, TRUE)}

VARIABLES
    isRecording,      \* useState(false)
    transcript,       \* useState('')
    isConnected,      \* useState(false)
    currentSession,   \* useState(null); 0 is null
    renderedStarting, \* sessionStarting.current as read by the last render
    mediaRecorderRef, \* useRef(null); 0 is null, else an index of recorders
    streamRef,        \* useRef(null); 0 is null, else the stream of that recorder
    chunkQueue,       \* useRef([])
    isProcessing,     \* useRef(false)
    sessionStarting,  \* useRef(false)
    chunkCounter,     \* useRef(0)
    audioChunks,      \* useRef([])
    recorders,        \* the MediaRecorder objects created so far
    clicks,           \* the handleMicClick invocations so far
    healthPending,    \* the mount effect's /health request is outstanding
    inflight,         \* /transcribe requests sent and not yet answered
    drainTimers,      \* pending setTimeout(..., 100) of sendChunkToBackend
    clearTimers,      \* pending setTimeout(..., 1000) of the stop branch
    sessionNo,        \* session identifiers issued by /start_session
    startRequests,    \* /start_session requests issued
    segCount,         \* segments accepted so far (numbers them)
    sent,             \* history: every /transcribe request, in send order
    produced,         \* history: every payload ondataavailable built
    accepted,         \* history: trimmed texts appended since the session began
    appended,         \* history: for each appended text, who asked and when
    milestones,       \* history: milestone signals since the session began
    lastOutcome       \* history: how the latest /transcribe response was taken

reactState == <<isRecording, transcript, isConnected, currentSession>>
refs == <<mediaRecorderRef, streamRef, chunkQueue, isProcessing, sessionStarting,
          chunkCounter, audioChunks>>
sendVars == <<isProcessing, chunkCounter, inflight, sent>>
resultVars == <<accepted, appended, milestones, lastOutcome>>
vars == <<isRecording, transcript, isConnected, currentSession, renderedStarting,
          mediaRecorderRef, streamRef, chunkQueue, isProcessing, sessionStarting,
          chunkCounter, audioChunks, recorders, clicks, healthPending, inflight,
          drainTimers, clearTimers, sessionNo, startRequests, segCount, sent,
          produced, accepted, appended, milestones, lastOutcome>>

----------------------------------------------------------------------------
\* Pure helpers.

IsSpace(c) == c = " "

RECURSIVE TrimLeft(_)
TrimLeft(s) ==
    IF s = <<>> THEN <<>>
    ELSE IF IsSpace(Head(s)) THEN TrimLeft(Tail(s)) ELSE s

RECURSIVE TrimRight(_)
TrimRight(s) ==
    IF s = <<>> THEN <<>>
    ELSE IF IsSpace(s[Len(s)]) THEN TrimRight(SubSeq(s, 1, Len(s) - 1)) ELSE s

\* String.prototype.trim
Trim(s) == TrimRight(TrimLeft(s))

\* A variant that tests the text without trimming it.
HasSpeechUntrimmed(resp) == resp.hasText /\ resp.text # <<>>

\* `result.text && result.text.trim()`: the response carries speech.
HasSpeech(resp) == resp.hasText /\ resp.text # <<>> /\ Trim(resp.text) # <<>>

\* `prev ? prev + ' ' + newText : newText`
AppendText(prev, newText) ==
    IF prev # <<>> THEN prev \o <<" ">> \o newText ELSE newText

\* Blob.size of a Blob built from the given parts.
RECURSIVE BlobSize(_)
BlobSize(parts) ==
    IF parts = <<>> THEN 0 ELSE Head(parts).size + BlobSize(Tail(parts))

\* createCompleteAudioFile: null (the empty sequence) when nothing is stored,
\* else one Blob of all the stored chunks, in order.
createCompleteAudioFile(chunks) == IF Len(chunks) = 0 THEN <<>> ELSE chunks

\* A variant that keeps every non-empty segment.
AcceptsNonEmpty(size) == size > 0

\* `event.data && event.data.size > 1000`
AcceptsSegment(size) == size > MinSize

\* A variant without the single-flight guard.
BusyNever == FALSE

\* `if (isProcessing.current) return;`
Busy == isProcessing

\* A variant that takes every response for a success.
SucceededAlways(resp) == TRUE

\* `if (!response.ok) throw`, and the throw of a failed fetch or json():
\* the try block reaches the handling of `result`.
Succeeded(resp) == resp.ok

\* A variant that releases the start guard on success only.
GuardAfterStartOnSuccess(ok) == ~ok

\* `finally { sessionStarting.current = false; }` of startNewSession.
GuardAfterStart(ok) == FALSE

\* A variant whose finally arms no timer.
ArmNoDrain(n) == n

\* `setTimeout(..., 100)` in the finally of sendChunkToBackend.
ArmDrain(n) == n + 1

\* A variant that keeps only the newest waiting payload.
EnqueueLatest(q, file) == <<file>>

\* `chunkQueue.current.push(completeFile)`
Enqueue(q, file) == Append(q, file)

----------------------------------------------------------------------------
\* Initial state: the component has mounted and its effect has called
\* testConnection, whose /health request is outstanding.

Init ==
    /\ isRecording = FALSE
    /\ transcript = <<>>
    /\ isConnected = FALSE
    /\ currentSession = 0
    /\ renderedStarting = FALSE
    /\ mediaRecorderRef = 0
    /\ streamRef = 0
    /\ chunkQueue = <<>>
    /\ isProcessing = FALSE
    /\ sessionStarting = FALSE
    /\ chunkCounter = 0
    /\ audioChunks = <<>>
    /\ recorders = <<>>
    /\ clicks = <<>>
    /\ healthPending = TRUE
    /\ inflight = {}
    /\ drainTimers = 0
    /\ clearTimers = 0
    /\ sessionNo = 0
    /\ startRequests = 0
    /\ segCount = 0
    /\ sent = <<>>
    /\ produced = <<>>
    /\ accepted = <<>>
    /\ appended = {}
    /\ milestones = 0
    /\ lastOutcome = "none"

\* React renders again when a state setter changed the state; the render reads
\* sessionStarting.current for the button's `disabled` (line 278).  A change of
\* a ref alone renders nothing.
Render ==
    renderedStarting' =
        IF reactState' # reactState THEN sessionStarting' ELSE renderedStarting

\* A variant whose button ignores the connectivity flag.
ButtonDisabledWhileStarting == renderedStarting

\* `disabled={!isConnected || sessionStarting.current}` as last rendered.
ButtonDisabled == ~isConnected \/ renderedStarting

\* The recorders that have reported an error.
Errored == {r \in 1..Len(recorders) : recorders[r].errored}

\* The exploration admits one more click, accepted segment or recorder error.
MayTake(budget) == Len(clicks) + segCount + Cardinality(Errored) < budget

----------------------------------------------------------------------------
\* sendChunkToBackend up to its first await: the guard, the counter, the fetch.
\* `via` records the caller: "data" (ondataavailable), "timer" (the drain
\* timer) or "stop" (onstop).
sendChunkToBackend(audioBlob, via) ==
    IF Busy
    THEN UNCHANGED sendVars
    ELSE /\ isProcessing' = TRUE
         /\ chunkCounter' = chunkCounter + 1
         /\ inflight' = inflight \cup
                {[seq |-> Len(sent) + 1, num |-> chunkCounter + 1,
                  payload |-> audioBlob, sess |-> sessionNo]}
         /\ sent' = Append(sent, [payload |-> audioBlob, via |-> via,
                                  sess |-> sessionNo])

\* The in-flight request, as a sequence number of `sent` (0: none).
InflightSeq == IF inflight = {} THEN 0 ELSE (CHOOSE r \in inflight : TRUE).seq

\* mediaRecorder.ondataavailable for recorder r and a segment of `size` bytes.
ondataavailable(r, size) ==
    LET seg == [id |-> segCount + 1, size |-> size, rec |-> r, sess |-> sessionNo]
        chunks == Append(audioChunks, seg)
        completeFile == createCompleteAudioFile(chunks)
        q == Enqueue(chunkQueue, completeFile)
    IN  IF AcceptsSegment(size)
           THEN /\ segCount' = segCount + 1
                /\ audioChunks' = chunks
                /\ produced' = Append(produced,
                       [payload |-> completeFile, during |-> InflightSeq])
                /\ IF ~isProcessing
                   THEN /\ chunkQueue' = Tail(q)
                        /\ sendChunkToBackend(Head(q), "data")
                   ELSE /\ chunkQueue' = q
                        /\ UNCHANGED sendVars
           ELSE UNCHANGED <<segCount, audioChunks, produced, chunkQueue, sendVars>>

\* mediaRecorder.onstart
onstart ==
    /\ transcript' = Listening
    /\ audioChunks' = <<>>
    /\ UNCHANGED <<chunkQueue, sendVars, produced, segCount>>

\* mediaRecorder.onstop: the final complete file goes straight to
\* sendChunkToBackend, not through chunkQueue.
onstop ==
    LET finalFile == createCompleteAudioFile(audioChunks)
    IN  /\ IF finalFile # <<>> /\ BlobSize(finalFile) > MinSize
           THEN sendChunkToBackend(finalFile, "stop")
           ELSE UNCHANGED sendVars
        /\ UNCHANGED <<transcript, audioChunks, chunkQueue, produced, segCount>>

----------------------------------------------------------------------------
\* The actions.

\* testConnection's await resolves: ok, a non-ok status, or a network error.
HealthResponse ==
    /\ healthPending
    /\ healthPending' = FALSE
    /\ \E outcome \in {"ok", "status", "error"} :
          isConnected' = CASE outcome = "ok" -> TRUE
                           [] outcome = "status" -> isConnected
                           [] outcome = "error" -> FALSE
    /\ UNCHANGED <<isRecording, transcript, currentSession, refs, recorders,
                   clicks, inflight, drainTimers, clearTimers, sessionNo,
                   startRequests, segCount, sent, produced, resultVars>>
    /\ Render

\* The index of the click whose startNewSession is awaiting its response (0: none).
StartingClick ==
    IF \E i \in 1..Len(clicks) : clicks[i].pc = "start"
    THEN CHOOSE i \in 1..Len(clicks) : clicks[i].pc = "start"
    ELSE 0

\* handleMicClick, start branch, no session yet and none starting: call
\* startNewSession, which sets its guard and issues /start_session.
ClickStartSession(budget) ==
    /\ ~ButtonDisabled
    /\ MayTake(budget)
    /\ ~isRecording
    /\ currentSession = 0 /\ ~sessionStarting
    /\ sessionStarting' = TRUE
    /\ startRequests' = startRequests + 1
    /\ clicks' = Append(clicks, [pc |-> "start", sid |-> 0, during |-> 0,
                                 asked |-> TRUE])
    /\ UNCHANGED <<reactState, mediaRecorderRef, streamRef, chunkQueue, isProcessing,
                   chunkCounter, audioChunks, recorders, healthPending, inflight,
                   drainTimers, clearTimers, sessionNo, segCount, sent, produced,
                   resultVars>>
    /\ Render

\* handleMicClick, start branch, a session is set or one is starting: line 139
\* skips startNewSession and the handler goes on to getUserMedia with the
\* currentSession of its render.
ClickSkipSession(budget) ==
    /\ ~ButtonDisabled
    /\ MayTake(budget)
    /\ ~isRecording
    /\ ~(currentSession = 0 /\ ~sessionStarting)
    /\ clicks' = Append(clicks, [pc |-> "media", sid |-> currentSession,
                                 during |-> StartingClick, asked |-> FALSE])
    /\ UNCHANGED <<reactState, refs, recorders, healthPending, inflight,
                   drainTimers, clearTimers, sessionNo, startRequests, segCount,
                   sent, produced, resultVars>>
    /\ Render

\* handleMicClick, stop branch.  MediaRecorder.stop() makes the recorder
\* inactive and queues its last dataavailable and its stop event.
ClickStop(budget) ==
    /\ ~ButtonDisabled
    /\ MayTake(budget)
    /\ isRecording
    /\ recorders' =
         IF mediaRecorderRef # 0 /\ recorders[mediaRecorderRef].state # "inactive"
         THEN [recorders EXCEPT ![mediaRecorderRef] =
                 [@ EXCEPT !.state = "inactive",
                           !.evq = @ \o <<"data", "stop">>,
                           !.stopMark = Len(sent)]]
         ELSE recorders
    /\ isRecording' = FALSE
    /\ clearTimers' = clearTimers + 1
    /\ clicks' = Append(clicks, [pc |-> "done", sid |-> currentSession,
                                 during |-> 0, asked |-> FALSE])
    /\ UNCHANGED <<transcript, isConnected, currentSession, refs, healthPending,
                   inflight, drainTimers, sessionNo, startRequests, segCount,
                   sent, produced, resultVars>>
    /\ Render

\* /start_session answers click h's startNewSession.  On success the state is
\* reset and the handler goes on to getUserMedia; on failure the handler
\* reports it and returns.  Either way the finally releases the guard.
StartSessionResponse(h, ok) ==
    /\ clicks[h].pc = "start"
    /\ sessionStarting' = GuardAfterStart(ok)
    /\ IF ok
       THEN /\ sessionNo' = sessionNo + 1
            /\ currentSession' = sessionNo + 1
            /\ transcript' = <<>>
            /\ chunkCounter' = 0
            /\ audioChunks' = <<>>
            /\ accepted' = <<>>
            /\ milestones' = 0
            /\ clicks' = [clicks EXCEPT ![h] = [@ EXCEPT !.pc = "media",
                                                         !.sid = sessionNo + 1]]
       ELSE /\ transcript' = StartFailed
            /\ clicks' = [clicks EXCEPT ![h] = [@ EXCEPT !.pc = "done"]]
            /\ UNCHANGED <<sessionNo, currentSession, chunkCounter, audioChunks,
                           accepted, milestones>>
    /\ UNCHANGED <<isRecording, isConnected, mediaRecorderRef, streamRef, chunkQueue,
                   isProcessing, recorders, healthPending, inflight, drainTimers,
                   clearTimers, startRequests, segCount, sent, produced, appended,
                   lastOutcome>>
    /\ Render

\* getUserMedia answers click h.  On success a MediaRecorder is created,
\* started with 5-second slices, and isRecording is set; its start event is
\* queued.  On failure the handler reports it.
GetUserMediaResponse(h, ok) ==
    /\ clicks[h].pc = "media"
    /\ clicks' = [clicks EXCEPT ![h] = [@ EXCEPT !.pc = "done"]]
    /\ IF ok
       THEN /\ recorders' = Append(recorders,
                   [state |-> "recording", evq |-> <<"start">>, stopMark |-> -1,
                    final |-> <<>>, stopped |-> FALSE, lastSize |-> 0,
                    errored |-> FALSE])
            /\ mediaRecorderRef' = Len(recorders) + 1
            /\ streamRef' = Len(recorders) + 1
            /\ isRecording' = TRUE
            /\ UNCHANGED transcript
       ELSE /\ transcript' = MicDenied
            /\ UNCHANGED <<recorders, mediaRecorderRef, streamRef, isRecording>>
    /\ UNCHANGED <<isConnected, currentSession, chunkQueue, isProcessing,
                   sessionStarting, chunkCounter, audioChunks, healthPending,
                   inflight, drainTimers, clearTimers, sessionNo, startRequests,
                   segCount, sent, produced, resultVars>>
    /\ Render

\* Recorder r's start event is delivered.
RecorderStart(r) ==
    /\ recorders[r].evq # <<>> /\ Head(recorders[r].evq) = "start"
    /\ recorders' = [recorders EXCEPT ![r] = [@ EXCEPT !.evq = Tail(@)]]
    /\ onstart
    /\ UNCHANGED <<isRecording, isConnected, currentSession, mediaRecorderRef,
                   streamRef, sessionStarting, clicks, healthPending, drainTimers,
                   clearTimers, sessionNo, startRequests, resultVars>>
    /\ Render

\* A 5-second slice of recorder r ends: dataavailable with `size` bytes.
Timeslice(budget, r, size) ==
    /\ recorders[r].state = "recording" /\ recorders[r].evq = <<>>
    /\ AcceptsSegment(size) => MayTake(budget)
    /\ ondataavailable(r, size)
    /\ UNCHANGED <<reactState, mediaRecorderRef, streamRef, sessionStarting, recorders,
                   clicks, healthPending, drainTimers, clearTimers, sessionNo,
                   startRequests, resultVars>>
    /\ Render

\* The dataavailable that stop() queued for recorder r is delivered.
RecorderLastData(budget, r, size) ==
    /\ recorders[r].evq # <<>> /\ Head(recorders[r].evq) = "data"
    /\ AcceptsSegment(size) => MayTake(budget)
    /\ recorders' = [recorders EXCEPT ![r] =
           [@ EXCEPT !.evq = Tail(@), !.lastSize = size]]
    /\ ondataavailable(r, size)
    /\ UNCHANGED <<reactState, mediaRecorderRef, streamRef, sessionStarting, clicks,
                   healthPending, drainTimers, clearTimers, sessionNo,
                   startRequests, resultVars>>
    /\ Render

\* Recorder r's stop event is delivered.  onstop stops the tracks of
\* streamRef.current, the newest stream: a recorder still recording from that
\* stream becomes inactive and queues its last dataavailable and its stop.
RecorderStop(r) ==
    /\ recorders[r].evq # <<>> /\ Head(recorders[r].evq) = "stop"
    /\ LET handled == [recorders EXCEPT ![r] =
                [@ EXCEPT !.evq = Tail(@), !.stopped = TRUE,
                          !.final = createCompleteAudioFile(audioChunks)]]
       IN  recorders' =
             IF streamRef # 0 /\ handled[streamRef].state = "recording"
             THEN [handled EXCEPT ![streamRef] =
                     [@ EXCEPT !.state = "inactive",
                               !.evq = @ \o <<"data", "stop">>,
                               !.stopMark = Len(sent)]]
             ELSE handled
    /\ onstop
    /\ UNCHANGED <<isRecording, isConnected, currentSession, mediaRecorderRef,
                   streamRef, sessionStarting, clicks, healthPending, drainTimers,
                   clearTimers, sessionNo, startRequests, resultVars>>
    /\ Render

\* Recorder r fails while recording.  The recorder becomes inactive and fires
\* error, then its last dataavailable, then stop; onerror (lines 204-207)
\* reports the error and nothing else.
RecorderError(budget, r) ==
    /\ recorders[r].state = "recording" /\ recorders[r].evq = <<>>
    /\ MayTake(budget)
    /\ recorders' = [recorders EXCEPT ![r] =
           [@ EXCEPT !.state = "inactive", !.evq = <<"data", "stop">>,
                     !.stopMark = Len(sent), !.errored = TRUE]]
    /\ transcript' = RecordingError
    /\ UNCHANGED <<isRecording, isConnected, currentSession, refs, clicks,
                   healthPending, inflight, drainTimers, clearTimers, sessionNo,
                   startRequests, segCount, sent, produced, resultVars>>
    /\ Render

\* /transcribe answers request req: sendChunkToBackend from its await to the
\* end of its finally, which clears the flag and arms the 100 ms drain timer.
TranscribeResponse(req, resp) ==
    /\ req \in inflight
    /\ inflight' = inflight \ {req}
    /\ IF Succeeded(resp) /\ HasSpeech(resp)
       THEN /\ transcript' = AppendText(transcript, Trim(resp.text))
            /\ accepted' = Append(accepted, Trim(resp.text))
            /\ appended' = appended \cup {[reqSess |-> req.sess, atSess |-> sessionNo]}
            /\ milestones' = milestones + (IF resp.milestone THEN 1 ELSE 0)
            /\ lastOutcome' = "speech"
       ELSE /\ lastOutcome' = IF resp.ok THEN "silent" ELSE "failed"
            /\ UNCHANGED <<transcript, accepted, appended, milestones>>
    /\ isProcessing' = FALSE
    /\ drainTimers' = ArmDrain(drainTimers)
    /\ UNCHANGED <<isRecording, isConnected, currentSession, mediaRecorderRef,
                   streamRef, chunkQueue, sessionStarting, chunkCounter, audioChunks,
                   recorders, clicks, healthPending, clearTimers, sessionNo,
                   startRequests, segCount, sent, produced>>
    /\ Render

\* A drain timer fires (lines 73-78).
DrainTimer ==
    /\ drainTimers > 0
    /\ drainTimers' = drainTimers - 1
    /\ IF Len(chunkQueue) > 0 /\ ~isProcessing
       THEN /\ chunkQueue' = Tail(chunkQueue)
            /\ sendChunkToBackend(Head(chunkQueue), "timer")
       ELSE UNCHANGED <<chunkQueue, sendVars>>
    /\ UNCHANGED <<reactState, mediaRecorderRef, streamRef, sessionStarting, audioChunks,
                   recorders, clicks, healthPending, clearTimers, sessionNo,
                   startRequests, segCount, produced, resultVars>>
    /\ Render

\* A timer of the stop branch fires (lines 245-247).
ClearSessionTimer ==
    /\ clearTimers > 0
    /\ clearTimers' = clearTimers - 1
    /\ currentSession' = 0
    /\ UNCHANGED <<isRecording, transcript, isConnected, refs, recorders, clicks,
                   healthPending, inflight, drainTimers, sessionNo, startRequests,
                   segCount, sent, produced, resultVars>>
    /\ Render

NextWithin(budget) ==
    \/ HealthResponse
    \/ ClickStartSession(budget)
    \/ ClickSkipSession(budget)
    \/ ClickStop(budget)
    \/ \E h \in 1..Len(clicks), ok \in BOOLEAN : StartSessionResponse(h, ok)
    \/ \E h \in 1..Len(clicks), ok \in BOOLEAN : GetUserMediaResponse(h, ok)
    \/ \E r \in 1..Len(recorders) : RecorderStart(r)
    \/ \E r \in 1..Len(recorders), size \in Sizes : Timeslice(budget, r, size)
    \/ \E r \in 1..Len(recorders), size \in Sizes :
           RecorderLastData(budget, r, size)
    \/ \E r \in 1..Len(recorders) : RecorderStop(r)
    \/ \E r \in 1..Len(recorders) : RecorderError(budget, r)
    \/ \E req \in inflight, resp \in Responses : TranscribeResponse(req, resp)
    \/ DrainTimer
    \/ ClearSessionTimer

Next == NextWithin(MaxInputs)
NextWide == NextWithin(MaxInputsWide)
NextLive == NextWithin(MaxInputsLive)

Spec == Init /\ [][Next]_vars
SpecWide == Init /\ [][NextWide]_vars

\* Every request is eventually answered (the fetch resolves or rejects) and
\* every armed drain timer eventually fires.
Fairness ==
    /\ WF_vars(\E req \in inflight, resp \in Responses :
                   TranscribeResponse(req, resp))
    /\ WF_vars(DrainTimer)

SpecLive == Init /\ [][NextLive]_vars /\ Fairness

----------------------------------------------------------------------------
\* Vocabulary of the properties.

\* The newest segment of a payload.
Newest(payload) == payload[Len(payload)]

\* Every segment of the payload was captured after a session had started.
InSession(payload) == \A k \in 1..Len(payload) : payload[k].sess >= 1

\* The segments of every payload stored, waiting, or sent.
SegmentsAnywhere ==
    {audioChunks[i] : i \in 1..Len(audioChunks)}
      \cup UNION {{chunkQueue[i][k] : k \in 1..Len(chunkQueue[i])} :
                  i \in 1..Len(chunkQueue)}
      \cup UNION {{sent[i].payload[k] : k \in 1..Len(sent[i].payload)} :
                  i \in 1..Len(sent)}

RECURSIVE PayloadsOf(_)
PayloadsOf(seq) ==
    IF seq = <<>> THEN <<>> ELSE <<Head(seq).payload>> \o PayloadsOf(Tail(seq))

TakenFromQueue(request) == request.via # "stop"

\* A text with no character other than spaces, or no text at all.
BlankText(resp) ==
    ~resp.hasText \/ \A i \in 1..Len(resp.text) : resp.text[i] = " "

RECURSIVE JoinTexts(_)
JoinTexts(texts) ==
    IF texts = <<>> THEN <<>>
    ELSE IF Len(texts) = 1 THEN texts[1]
    ELSE JoinTexts(SubSeq(texts, 1, Len(texts) - 1)) \o <<" ">> \o texts[Len(texts)]

\* Nothing is in flight, waiting, or about to be drained.
Quiescent == inflight = {} /\ chunkQueue = <<>> /\ drainTimers = 0

----------------------------------------------------------------------------
\* C1: in every reachable state the number of transcription requests sent and
\* not yet answered is 0 or 1.
C1_AtMostOneInFlight == Cardinality(inflight) \in {0, 1}

\* A burst: one request in flight while two later payloads wait.
C1_Witness == Cardinality(inflight) = 1 /\ Len(chunkQueue) = 2

C3_NeverOutOfOrder ==
    \A i \in 1..Len(sent), j \in 1..Len(sent) :
        (/\ i < j
         /\ Newest(sent[i].payload).rec = Newest(sent[j].payload).rec
         /\ InSession(sent[i].payload) /\ InSession(sent[j].payload))
        => Newest(sent[i].payload).id <= Newest(sent[j].payload).id

\* C4: once a recording that holds an accepted segment has stopped and all
\* requests have been answered, exactly one request carrying the whole
\* recording was sent since stop() was called.
C4_ExactlyOneFinalDispatch ==
    \A r \in 1..Len(recorders) :
        (/\ recorders[r].stopped /\ recorders[r].final # <<>>
         /\ InSession(recorders[r].final) /\ Quiescent)
        => Cardinality({i \in (recorders[r].stopMark + 1)..Len(sent) :
                           sent[i].payload = recorders[r].final}) = 1

\* C5: no request carries a segment captured in an earlier session, and no
\* result of a request sent in an earlier session is appended to the
\* transcript of a later one.
C5_NoLeakAcrossSessions ==
    /\ \A i \in 1..Len(sent) : \A k \in 1..Len(sent[i].payload) :
           sent[i].payload[k].sess >= 1 => sent[i].payload[k].sess = sent[i].sess
    /\ \A a \in appended : a.reqSess >= 1 => a.reqSess = a.atSess

\* C6: in a session that has accepted a result, the transcript is the accepted
\* trimmed texts joined by single spaces, and nothing else; "hello" then
\* "world" give "hello world", a first result alone gives exactly its text.
C6_TranscriptIsJoinedResults ==
    (currentSession # 0 /\ accepted # <<>>) => transcript = JoinTexts(accepted)

\* C7: handling a successful response whose text is missing, empty or
\* whitespace-only leaves the transcript unchanged.
C7_BlankResultChangesNothing ==
    [][(\E req \in inflight, resp \in Responses :
            resp.ok /\ BlankText(resp) /\ TranscribeResponse(req, resp))
       => transcript' = transcript]_vars

\* A blank result has been handled while the transcript was not empty.
C7_Witness ==
    lastOutcome = "silent" /\ transcript = Listening /\ inflight = {}

\* C8: within one session the milestone signal is raised at most once.
C8_MilestoneAtMostOnce == currentSession # 0 => milestones <= 1

\* C9: when a click begins while the startNewSession of another click has not
\* resolved, one /start_session request is issued for the two, and once the
\* start has succeeded both hold the same session identifier.
C9_OneStartOneIdentifier ==
    \A j \in 1..Len(clicks) :
        LET i == clicks[j].during
        IN  (i # 0 /\ clicks[i].pc # "start" /\ clicks[i].sid # 0)
            => /\ clicks[i].asked /\ ~clicks[j].asked
               /\ clicks[j].sid = clicks[i].sid

\* C10: no segment below the minimum size is in the accumulator, in a waiting
\* payload or in a payload that was sent, the final one included.
C10_SmallSegmentsNeverKept ==
    \A seg \in SegmentsAnywhere : ~(seg.size < MinSize)

\* A recording took a segment, its last segment was below the minimum, and
\* its final payload was sent by onstop.
C10_Witness ==
    \E r \in 1..Len(recorders) :
        /\ recorders[r].stopped /\ recorders[r].lastSize < MinSize
        /\ recorders[r].lastSize > 0
        /\ \E i \in 1..Len(sent) :
               sent[i].via = "stop" /\ sent[i].payload = recorders[r].final

\* C11: when /start_session fails, the step that handles the failure leaves no
\* session identifier set, releases the start guard, issues no further start
\* request, and ends the click without creating a recorder.
C11_FailedStartLeavesIdle ==
    [][\A h \in 1..Len(clicks) :
           StartSessionResponse(h, FALSE)
           => /\ currentSession' = 0
              /\ ~sessionStarting'
              /\ startRequests' = startRequests
              /\ clicks'[h].pc = "done"
              /\ recorders' = recorders]_vars

\* The only click failed to start its session: one request was issued, the
\* click has returned, and no recorder exists.
C11_Witness ==
    /\ transcript = StartFailed /\ startRequests = 1 /\ ~sessionStarting
    /\ Len(clicks) = 1 /\ clicks[1].pc = "done" /\ clicks[1].asked
    /\ recorders = <<>> /\ currentSession = 0

\* C12: the step that handles a failed /transcribe request (network error,
\* non-success status, malformed body) leaves the transcript unchanged, clears
\* the in-flight flag, sends nothing and puts nothing back in the queue, and
\* arms the drain timer that dispatches the payloads waiting.
C12_FailedRequestIsNotRetried ==
    [][\A req \in inflight, resp \in Responses :
           (~resp.ok /\ TranscribeResponse(req, resp))
           => /\ transcript' = transcript
              /\ ~isProcessing'
              /\ sent' = sent /\ inflight' = inflight \ {req}
              /\ chunkQueue' = chunkQueue
              /\ drainTimers' = drainTimers + 1]_vars

\* The latest response was a failure, and the payload that waited behind the
\* failed request has since been sent: it is in flight, it is a different
\* payload, and the transcript is still the recorder's status line.
C12_Witness ==
    /\ lastOutcome = "failed" /\ Len(sent) >= 2
    /\ \E req \in inflight : req.seq = Len(sent)
    /\ sent[Len(sent)].via = "timer"
    /\ sent[Len(sent)].payload # sent[Len(sent) - 1].payload
    /\ transcript = Listening

\* C13: the step that handles a capture failure (getUserMedia rejects, or the
\* recorder reports an error) leaves no session identifier set and no
\* recording active.
C13_CaptureFailureTearsDown ==
    [][((\E h \in 1..Len(clicks) : GetUserMediaResponse(h, FALSE))
        \/ (\E r \in 1..Len(recorders) :
                recorders'[r].errored /\ ~recorders[r].errored))
       => (currentSession' = 0 /\ ~isRecording')]_vars

ProducerOf(j) == Newest(produced[j].payload).rec
EarlierOf(j) == {i \in 1..(j - 1) : ProducerOf(i) = ProducerOf(j)}

\* C15: within one recording, each produced payload is the previously produced
\* payload followed by exactly the one new segment, and the first payload of
\* the recording is its first segment alone.
C15_PayloadsExtendByOneSegment ==
    \A j \in 1..Len(produced) :
        LET p == produced[j].payload
        IN  IF EarlierOf(j) = {}
            THEN Len(p) = 1
            ELSE LET i == CHOOSE k \in EarlierOf(j) : \A l \in EarlierOf(j) : l <= k
                 IN  p = Append(produced[i].payload, Newest(p))

Stuck == chunkQueue # <<>> /\ inflight = {} /\ drainTimers = 0

\* C17: given that every request is answered and every drain timer fires, the
\* state in which a payload waits with nothing in flight and no drain timer
\* pending is never reached, a non-empty queue always becomes empty again,
\* and once segments stop arriving it stays empty.
C17_WaitingPayloadsAreSent ==
    /\ []~Stuck
    /\ (chunkQueue # <<>>) ~> (chunkQueue = <<>>)
    /\ <>[](chunkQueue = <<>>)

\* A payload waited behind a request, the request completed, and the drain
\* timer sent the waiting payload; everything has been answered since.
C17_Witness ==
    /\ chunkQueue = <<>> /\ inflight = {} /\ drainTimers = 0
    /\ \E k \in 2..Len(sent) : sent[k].via = "timer"

\* The recorders that have been started and not stopped.
Recording == {r \in 1..Len(recorders) : recorders[r].state = "recording"}

\* No click so far arrived while another click's session start was pending.
NoClickDuringStart == \A c \in 1..Len(clicks) : clicks[c].during = 0

\* C18: whenever a recorder is recording, a session identifier is set; so the
\* timer armed by a stop never clears the identifier under a later recording.
\* (Clicks that overlap a pending session start are the case of C19.)
C18_RecordingHasSession ==
    (Recording # {} /\ NoClickDuringStart) => currentSession # 0

\* C19: at most one recorder is recording at any time, and a recorder exists
\* only after a /start_session request has succeeded.
C19_OneRecorderAfterStart ==
    /\ Cardinality(Recording) <= 1
    /\ (recorders # <<>> => sessionNo >= 1)

\* C20: within one recording no two requests carry the same sequence of
\* segments; in particular the final payload sent by onstop repeats no payload
\* that had been sent before stop() was called.
C20_NoPayloadSentTwice ==
    \A i \in 1..Len(sent), j \in 1..Len(sent) :
        (/\ i < j /\ sent[j].via = "stop"
         /\ i <= recorders[Newest(sent[j].payload).rec].stopMark
         /\ InSession(sent[i].payload) /\ NoClickDuringStart)
        => sent[i].payload # sent[j].payload

====
